---- MODULE Spec2Model ----
(***************************************************************************)
(* State-machine model of rom-builder.py: main() parses the flags into a   *)
(* BuildOptions, validates them, constructs a RomBuilder and calls run(),  *)
(* which checks dependencies, writes the log header, resolves missing      *)
(* selections at the interactive menus, sets up the source tree, narrates  *)
(* the build(s) and writes the build report(s).                            *)
(***************************************************************************)
EXTENDS Integers, Sequences, FiniteSets, TLC

VARIABLES
    pc,             \* position of the single thread of control
    args,           \* {argparse namespace of main()}, while the options are its flags
    options,        \* BuildOptions (self.options)
    builder,        \* TRUE once RomBuilder(options) has been constructed
    rom_info,       \* self.rom_info: None or the key of the ROM_INFO entry
    device_info,    \* self.device_info: None or the key of the DEVICE_INFO entry
    log_dir,        \* TRUE once os.makedirs(self.log_dir) has run
    log_file,       \* the per-run log file: state and header written to it
    missing_deps,   \* check_dependencies' count of tools not found
    prompt,         \* the input() prompt shown last, or None
    typed,          \* the line input() has returned to a menu, not yet examined
    rejected,       \* inputs the menus of the interactive flow have rejected
    tree,           \* the per-ROM source path ~/<directory> on disk
    tree_before,    \* what that path held when the run started
    cmds,           \* run_command calls so far: command, cwd, exit code (-1: running)
    todo,           \* update_device_trees: sub-repositories still to visit
    not_found,      \* update_device_trees: sub-repositories absent on disk
    queue,          \* run(): narrator invocations still to make
    builds,         \* narrator invocations made so far, with what they logged
    doc_file,       \* generate_docs: the report path being written
    docs,           \* report files on disk: path -> absent / partial / complete
    elapsed_shown,  \* TRUE once show_elapsed_time has run
    raised,         \* the exception that ended the run, or None
    exit_code,      \* the process exit status (-1 while the process runs)
    build_log,      \* analyze_build_error: the log file it is given (exists, content)
    reported,       \* analyze_build_error: the messages it has logged
    returned        \* analyze_build_error: <<value>> once it has returned

vars == <<pc, args, options, builder, rom_info, device_info, log_dir, log_file,
          missing_deps, prompt, typed, rejected, tree, tree_before, cmds,
          todo, not_found, queue, builds, doc_file, docs, elapsed_shown, raised,
          exit_code, build_log, reported, returned>>

\* the state of run(), and the state of analyze_build_error, which run() never calls
run_vars == <<pc, args, options, builder, rom_info, device_info, log_dir, log_file,
              missing_deps, prompt, typed, rejected, tree, tree_before, cmds,
              todo, not_found, queue, builds, doc_file, docs, elapsed_shown,
              raised, exit_code>>

diag_vars == <<build_log, reported, returned>>

----------------------------------------------------------------------------
(* Bounds of the model *)

\* longest line typed at an input() prompt
MaxInputLen == 1

\* rejected menu inputs counted per interactive flow
MaxRejected == 1

\* sub-repositories per run that are absent on disk or whose git command fails
MaxTreeFaults == 1

\* lines of the log file given to analyze_build_error
MaxLogLines == 2

----------------------------------------------------------------------------
(* Static configuration tables *)

None == "None"

ROM_INFO ==
    [axion    |-> [name |-> "Axion AOSP", directory |-> "ax",
                   manifest_url |-> "https://github.com/AxionAOSP/android.git",
                   branch |-> "lineage-22.2"],
     lmodroid |-> [name |-> "LMODroid", directory |-> "lmo",
                   manifest_url |-> "https://git.libremobileos.com/LMODroid/manifest.git",
                   branch |-> "fifteen"]]

DEVICE_INFO ==
    [pipa  |-> [name |-> "Xiaomi Pad 6", soc |-> "sm8250", manufacturer |-> "xiaomi"],
     raven |-> [name |-> "Google Pixel 6 Pro", soc |-> "gs101", manufacturer |-> "google"]]

\* Config.DEVICE_REPOS, lines 74-86: per (ROM, device) the device repository
\* and the vendor repository with their branches, None where the table has none
DEVICE_REPOS ==
    [axion |->
        [pipa |-> [device |-> "ai94iq/android_device_xiaomi_pipa@axv-qpr2",
                   vendor |-> None],
         raven |-> [device |-> None,
                    vendor |-> "TheMuppets/proprietary_vendor_google_raven@lineage-22.2"]],
     lmodroid |->
        [pipa |-> [device |-> "ai94iq/android_device_xiaomi_pipa@lmov",
                   vendor |-> None],
         raven |-> [device |-> None, vendor |-> None]]]

\* list(self.config.ROM_INFO.keys()): dict insertion order
RomKeys == <<"axion", "lmodroid">>

\* list(self.config.DEVICE_INFO.keys())
DeviceKeys == <<"pipa", "raven">>

Variants == <<"vanilla", "gms", "both">>

Deps == {"repo", "git", "curl"}

SeqToSet(s) == {s[i] : i \in DOMAIN s}

----------------------------------------------------------------------------
(* Command line *)

\* a flag that takes a value: absent (None), empty, a table key, or another word
RomFlags == {None, "", "axion", "lmodroid", "crdroid"}
DeviceFlags == {None, "", "pipa", "raven", "marble"}
VariantFlags == {None, "", "vanilla", "gms", "both", "full"}

Args ==
    [rom : RomFlags, device : DeviceFlags, variant : VariantFlags,
     non_interactive : BOOLEAN, local_path : BOOLEAN, skip_sync : BOOLEAN,
     clean_build : BOOLEAN, build_fastboot : BOOLEAN]

\* Python truthiness of an optional string
Truthy(s) == s # None /\ s # ""

\* "x or ''"
OrEmpty(s) == IF Truthy(s) THEN s ELSE ""

BuildOptions(a) ==
    [rom |-> OrEmpty(a.rom), device |-> OrEmpty(a.device),
     variant |-> OrEmpty(a.variant),
     use_server_path |-> ~a.local_path, skip_sync |-> a.skip_sync,
     clean_build |-> a.clean_build, build_fastboot |-> a.build_fastboot,
     interactive |-> ~a.non_interactive]

InvalidRom(a) == Truthy(a.rom) /\ a.rom \notin DOMAIN ROM_INFO

InvalidDevice(a) == Truthy(a.device) /\ a.device \notin DOMAIN DEVICE_INFO

VariantUnchecked(a) == FALSE

InvalidVariant(a) == Truthy(a.variant) /\ a.variant \notin SeqToSet(Variants)

----------------------------------------------------------------------------
(* Files *)

TreeStates == {"absent", "unmarked", "marked"}

DocFiles == [base : {"server", "local"}, sub : {"vanilla", "gms", ""}]

NoLog == [state |-> "absent", header |-> None]

\* no log file at the path given to analyze_build_error
NoBuildLog == [exists |-> FALSE, content |-> <<>>]

----------------------------------------------------------------------------
(* Ways the process ends *)

\* sys.exit(main()): main() returned `code`
Exit(code) ==
    /\ pc' = "done"
    /\ exit_code' = code
    /\ raised' = raised

\* an exception nothing catches: traceback, exit status 1
Uncaught(exc) ==
    /\ pc' = "done"
    /\ exit_code' = 1
    /\ raised' = exc

PromptPcs == {"rom_menu", "device_menu", "variant_menu", "path_menu",
              "skip_prompt", "clean_prompt", "fastboot_prompt", "update_prompt"}

\* continue at p; arriving at an input() call shows its prompt
Goto(p) ==
    /\ pc' = p
    /\ prompt' = IF p \in PromptPcs THEN p ELSE prompt
    /\ UNCHANGED <<exit_code, raised>>

----------------------------------------------------------------------------

\* the state when main() has parsed the flags and built the options (line 948)
Init ==
    /\ pc = "validate"
    /\ \E a \in Args :
         /\ args = {a}
         /\ options = BuildOptions(a)
    /\ builder = FALSE
    /\ rom_info = None
    /\ device_info = None
    /\ log_dir = FALSE
    /\ log_file = NoLog
    /\ missing_deps = 0
    /\ prompt = None
    /\ typed = <<>>
    /\ rejected = 0
    /\ tree \in TreeStates
    /\ tree_before = tree
    /\ cmds = <<>>
    /\ todo = <<>>
    /\ not_found = {}
    /\ queue = <<>>
    /\ builds = <<>>
    /\ doc_file = None
    /\ docs = [f \in DocFiles |-> "absent"]
    /\ elapsed_shown = FALSE
    /\ raised = None
    /\ exit_code = -1
    /\ build_log = NoBuildLog
    /\ reported = <<>>
    /\ returned = <<>>

----------------------------------------------------------------------------
(* main() *)

\* main(), lines 950-961: an unknown --rom, --device or --variant returns 1
Validate ==
    /\ pc = "validate"
    /\ \E a \in args :
         IF InvalidRom(a) \/ InvalidDevice(a) \/ InvalidVariant(a)
           THEN Exit(1) /\ UNCHANGED prompt
           ELSE Goto("construct")
    /\ UNCHANGED <<typed, args, options, builder, rom_info, device_info, log_dir,
                   log_file, missing_deps, rejected, tree, tree_before, cmds,
                   todo, not_found, queue, builds, doc_file, docs,
                   elapsed_shown>>
    /\ UNCHANGED diag_vars

\* RomBuilder.__init__ and main(), lines 964-968
Construct ==
    /\ pc = "construct"
    /\ builder' = TRUE
    /\ \E a \in args :
         /\ rom_info' = IF Truthy(a.rom) /\ a.rom \in DOMAIN ROM_INFO
                          THEN a.rom
                          ELSE IF options.rom # "" THEN options.rom ELSE None
         /\ device_info' = IF Truthy(a.device) /\ a.device \in DOMAIN DEVICE_INFO
                             THEN a.device
                             ELSE IF options.device # "" THEN options.device ELSE None
    /\ log_dir' = TRUE
    /\ Goto("check_dependencies")
    /\ UNCHANGED <<typed, args, options, log_file, missing_deps, rejected, tree,
                   tree_before, cmds, todo, not_found, queue, builds, doc_file,
                   docs, elapsed_shown>>
    /\ UNCHANGED diag_vars

----------------------------------------------------------------------------
(* RomBuilder.run(): dependencies and log header *)

\* the interactive flow is entered (line 774)
NeedsInteractive(o) ==
    o.interactive /\ (o.rom = "" \/ o.device = "" \/ (o.rom = "axion" /\ o.variant = ""))

\* the prompt that follows `stage` in the interactive flow, given the options
AfterStage(stage, o) ==
    CASE stage = "enter" /\ o.rom = "" -> "rom_menu"
      [] stage \in {"enter", "rom_menu"} /\ o.device = "" -> "device_menu"
      [] stage \in {"enter", "rom_menu", "device_menu"}
           /\ o.rom = "axion" /\ o.variant = "" -> "variant_menu"
      [] OTHER -> "path_menu"

AllButOneSatisfied(count) == count <= 1

\* check_dependencies, lines 182-187: "if missing_deps > 0: return False"
DependenciesSatisfied(count) == count = 0

\* setup_logging, line 147: the selection line of the header
LogHeader(o) == [rom |-> o.rom, device |-> o.device, variant |-> o.variant]

LogBeforeCheck ==
    /\ pc = "check_dependencies"
    /\ log_file' = [state |-> "complete", header |-> LogHeader(options)]
    /\ \E missing \in SUBSET Deps :
         /\ missing_deps' = Cardinality(missing)
         /\ IF ~DependenciesSatisfied(missing_deps')
              THEN Exit(1) /\ UNCHANGED prompt
              ELSE Goto("setup_logging")
    /\ UNCHANGED <<typed, args, options, builder, rom_info, device_info, log_dir,
                   rejected, tree, tree_before, cmds, todo, not_found,
                   queue, builds, doc_file, docs, elapsed_shown>>
    /\ UNCHANGED diag_vars

\* which(dep) for each of repo, git, curl; any missing one ends run() with 1
CheckDependencies ==
    /\ pc = "check_dependencies"
    /\ \E missing \in SUBSET Deps :
         /\ missing_deps' = Cardinality(missing)
         /\ IF ~DependenciesSatisfied(missing_deps')
              THEN Exit(1) /\ UNCHANGED prompt
              ELSE Goto("setup_logging")
    /\ UNCHANGED <<typed, args, options, builder, rom_info, device_info, log_dir,
                   log_file, rejected, tree, tree_before, cmds, todo, not_found,
                   queue, builds, doc_file, docs, elapsed_shown>>
    /\ UNCHANGED diag_vars

\* setup_logging, line 145: open(self.log_file, "w")
SetupLoggingOpen ==
    /\ pc = "setup_logging"
    /\ log_file' = [state |-> "partial", header |-> None]
    /\ Goto("write_log")
    /\ UNCHANGED <<typed, args, options, builder, rom_info, device_info, log_dir,
                   missing_deps, rejected, tree, tree_before, cmds, todo,
                   not_found, queue, builds, doc_file, docs, elapsed_shown>>
    /\ UNCHANGED diag_vars

\* setup_logging, lines 146-151: the header is written and the file closed;
\* run(), line 774, then enters the interactive flow or goes on to the build.
\* The prompts of the flow overwrite what the flags set, and nothing reads
\* main()'s args after line 968: the model keeps args only for the runs
\* whose options stay those of the command line.
SetupLoggingWrite ==
    /\ pc = "write_log"
    /\ log_file' = [state |-> "complete", header |-> LogHeader(options)]
    /\ IF NeedsInteractive(options)
         THEN Goto(AfterStage("enter", options)) /\ args' = {}
         ELSE Goto("setup_environment") /\ UNCHANGED args
    /\ UNCHANGED <<typed, options, builder, rom_info, device_info, log_dir,
                   missing_deps, rejected, tree, tree_before, cmds, todo,
                   not_found, queue, builds, doc_file, docs, elapsed_shown>>
    /\ UNCHANGED diag_vars

----------------------------------------------------------------------------
(* Lines typed at input() *)

Digits == {"0", "1", "2", "3"}

\* characters of a line typed at a numbered menu
MenuChars == Digits \cup {" ", "x"}

\* characters of a line typed at a y/n prompt
AnswerChars == {"y", "Y", "n", " "}

Lines(chars) == UNION {[1..n -> chars] : n \in 0..MaxInputLen}

DigitValue(c) ==
    CASE c = "0" -> 0 [] c = "1" -> 1 [] c = "2" -> 2 [] c = "3" -> 3

RECURSIVE Strip(_)
\* str.strip() of the surrounding blanks, as int() does before parsing
Strip(s) ==
    IF s = <<>> THEN s
    ELSE IF Head(s) = " " THEN Strip(Tail(s))
    ELSE IF s[Len(s)] = " " THEN Strip(SubSeq(s, 1, Len(s) - 1))
    ELSE s

RECURSIVE Decimal(_)
Decimal(s) ==
    IF s = <<>> THEN 0
    ELSE 10 * Decimal(SubSeq(s, 1, Len(s) - 1)) + DigitValue(s[Len(s)])

\* int(line): [ok |-> TRUE, value |-> n], or ok = FALSE for a ValueError
ParseInt(line) ==
    LET body == Strip(line)
    IN  IF body # <<>> /\ \A i \in DOMAIN body : body[i] \in Digits
          THEN [ok |-> TRUE, value |-> Decimal(body)]
          ELSE [ok |-> FALSE, value |-> 0]

\* str.lower() of the characters typed at a y/n prompt
Lower(c) == IF c = "Y" THEN "y" ELSE c

\* answer.lower() == 'y'
IsYes(line) == Len(line) = 1 /\ Lower(line[1]) = "y"

\* list[k] with Python's indexing: from 0, negative k counting from the end
Item(list, k) == IF k >= 0 THEN list[k + 1] ELSE list[Len(list) + k + 1]

InRangeFromZero(choice, count) == choice.ok /\ 0 <= choice.value /\ choice.value <= count

\* "1 <= choice <= rom_count", after int() succeeded
InRange(choice, count) == choice.ok /\ 1 <= choice.value /\ choice.value <= count

\* a rejected input is counted, up to the bound of the model
CountRejected == rejected' = IF rejected < MaxRejected THEN rejected + 1 ELSE rejected

----------------------------------------------------------------------------
(* RomBuilder.run(): the interactive flow, lines 774-858 *)

MenuPcs == {"rom_menu", "device_menu", "variant_menu", "path_menu"}

\* input() returns the line typed at a numbered menu
ReadLine ==
    /\ pc \in MenuPcs
    /\ typed = <<>>
    /\ \E line \in Lines(MenuChars) : typed' = <<line>>
    /\ UNCHANGED <<pc, args, options, builder, rom_info, device_info, log_dir,
                   log_file, missing_deps, prompt, rejected, tree, tree_before,
                   cmds, todo, not_found, queue, builds, doc_file, docs,
                   elapsed_shown, raised, exit_code>>
    /\ UNCHANGED diag_vars

NotLookedUp(key) == None

\* lines 788 and 805: self.rom_info = self.config.ROM_INFO[self.options.rom],
\* and the same for the device; the entry is held by its key
InfoFor(key) == key

\* lines 779-793: ROM menu
RomMenu ==
    /\ pc = "rom_menu"
    /\ typed # <<>>
    /\ typed' = <<>>
    /\ LET choice == ParseInt(typed[1]) IN
         IF InRange(choice, Len(RomKeys))
           THEN /\ options' = [options EXCEPT !.rom = Item(RomKeys, choice.value - 1)]
                /\ rom_info' = InfoFor(options'.rom)
                /\ Goto(AfterStage("rom_menu", options'))
                /\ UNCHANGED rejected
           ELSE /\ CountRejected
                /\ Goto("rom_menu")
                /\ UNCHANGED <<options, rom_info>>
    /\ UNCHANGED <<args, builder, device_info, log_dir, log_file, missing_deps,
                   tree, tree_before, cmds, todo, not_found, queue, builds,
                   doc_file, docs, elapsed_shown>>
    /\ UNCHANGED diag_vars

\* lines 796-810: device menu
DeviceMenu ==
    /\ pc = "device_menu"
    /\ typed # <<>>
    /\ typed' = <<>>
    /\ LET choice == ParseInt(typed[1]) IN
         IF InRange(choice, Len(DeviceKeys))
           THEN /\ options' = [options EXCEPT !.device = Item(DeviceKeys, choice.value - 1)]
                /\ device_info' = InfoFor(options'.device)
                /\ Goto(AfterStage("device_menu", options'))
                /\ UNCHANGED rejected
           ELSE /\ CountRejected
                /\ Goto("device_menu")
                /\ UNCHANGED <<options, device_info>>
    /\ UNCHANGED <<args, builder, rom_info, log_dir, log_file, missing_deps,
                   tree, tree_before, cmds, todo, not_found, queue, builds,
                   doc_file, docs, elapsed_shown>>
    /\ UNCHANGED diag_vars

\* lines 813-830: variant menu (Axion only)
VariantMenu ==
    /\ pc = "variant_menu"
    /\ typed # <<>>
    /\ typed' = <<>>
    /\ LET choice == ParseInt(typed[1]) IN
         IF choice.ok /\ choice.value \in {1, 2, 3}
           THEN /\ options' = [options EXCEPT !.variant = Variants[choice.value]]
                /\ Goto("path_menu")
                /\ UNCHANGED rejected
           ELSE /\ CountRejected
                /\ Goto("variant_menu")
                /\ UNCHANGED options
    /\ UNCHANGED <<args, builder, rom_info, device_info, log_dir, log_file,
                   missing_deps, tree, tree_before, cmds, todo, not_found, queue,
                   builds, doc_file, docs, elapsed_shown>>
    /\ UNCHANGED diag_vars

\* lines 833-846: output path menu
PathMenu ==
    /\ pc = "path_menu"
    /\ typed # <<>>
    /\ typed' = <<>>
    /\ LET choice == ParseInt(typed[1]) IN
         IF choice.ok /\ choice.value \in {1, 2}
           THEN /\ options' = [options EXCEPT !.use_server_path = (choice.value = 1)]
                /\ Goto("skip_prompt")
                /\ UNCHANGED rejected
           ELSE /\ CountRejected
                /\ Goto("path_menu")
                /\ UNCHANGED options
    /\ UNCHANGED <<args, builder, rom_info, device_info, log_dir, log_file,
                   missing_deps, tree, tree_before, cmds, todo, not_found, queue,
                   builds, doc_file, docs, elapsed_shown>>
    /\ UNCHANGED diag_vars

FlagWins(flag, line) == flag \/ IsYes(line)

\* lines 850, 854, 858: the option becomes the answer, whatever it was
Answered(flag, line) == IsYes(line)

\* lines 849-850: "Skip repo sync? (y/n)"; typed keeps the line answered
\* last until setup_environment starts
SkipPrompt ==
    /\ pc = "skip_prompt"
    /\ \E line \in Lines(AnswerChars) :
         /\ typed' = <<line>>
         /\ options' = [options EXCEPT !.skip_sync = Answered(options.skip_sync, line)]
    /\ Goto("clean_prompt")
    /\ UNCHANGED <<args, builder, rom_info, device_info, log_dir, log_file,
                   missing_deps, rejected, tree, tree_before, cmds, todo,
                   not_found, queue, builds, doc_file, docs, elapsed_shown>>
    /\ UNCHANGED diag_vars

\* lines 853-854: "Clean build? (y/n)"
CleanPrompt ==
    /\ pc = "clean_prompt"
    /\ \E line \in Lines(AnswerChars) :
         /\ typed' = <<line>>
         /\ options' = [options EXCEPT !.clean_build = Answered(options.clean_build, line)]
    /\ Goto("fastboot_prompt")
    /\ UNCHANGED <<args, builder, rom_info, device_info, log_dir, log_file,
                   missing_deps, rejected, tree, tree_before, cmds, todo,
                   not_found, queue, builds, doc_file, docs, elapsed_shown>>
    /\ UNCHANGED diag_vars

\* lines 857-858: "Build fastboot package? (y/n)", the last prompt of the
\* flow; the count of rejected inputs ends with the flow
FastbootPrompt ==
    /\ pc = "fastboot_prompt"
    /\ \E line \in Lines(AnswerChars) :
         /\ typed' = <<line>>
         /\ options' = [options EXCEPT !.build_fastboot = Answered(options.build_fastboot, line)]
    /\ rejected' = 0
    /\ Goto("setup_environment")
    /\ UNCHANGED <<args, builder, rom_info, device_info, log_dir, log_file,
                   missing_deps, tree, tree_before, cmds, todo,
                   not_found, queue, builds, doc_file, docs, elapsed_shown>>
    /\ UNCHANGED diag_vars

\* input() at end of input: EOFError, which nothing catches
EndOfInput ==
    /\ pc \in PromptPcs
    /\ pc \in MenuPcs => typed = <<>>
    /\ Uncaught("EOFError")
    /\ typed' = <<>>
    /\ UNCHANGED <<args, options, builder, rom_info, device_info, log_dir,
                   log_file, missing_deps, prompt, rejected, tree, tree_before,
                   cmds, todo, not_found, queue, builds, doc_file, docs,
                   elapsed_shown>>
    /\ UNCHANGED diag_vars

----------------------------------------------------------------------------
(* External commands *)

\* exit codes an external command may end with: zero, or non-zero
ExitCodes == {0, 1}

\* run_command, lines 194-201: the subprocess is started
Started(cmd, cwd) == Append(cmds, [cmd |-> cmd, cwd |-> cwd, rc |-> -1])

\* run_command, lines 203-210: communicate() returns and the exit code is known
Finished(rc) == [cmds EXCEPT ![Len(cmds)].rc = rc]

NeverFatal(rc) == FALSE

\* setup_environment, lines 544 and 553: "if exit_code != 0: ... return False"
Fatal(rc) == rc # 0

----------------------------------------------------------------------------
(* RomBuilder.setup_environment *)

NeverIsDir(t) == FALSE

\* os.path.isdir(rom_path), line 522
IsDir(t) == t # "absent"

AlwaysOffered(o) == TRUE

\* lines 567 and 401: the device-tree update is offered when the run is
\* interactive and skip_sync is (still) set
UpdateOffered(o) == o.interactive /\ o.skip_sync

\* where setup_environment goes on once the source tree is in place
AfterSync(o) == IF UpdateOffered(o) THEN "update_prompt" ELSE "finish_setup"

\* lines 481-528 and 563-569: table lookups, then the skip-sync decision
SetupEnvironment ==
    /\ pc = "setup_environment"
    /\ IF options.rom \notin DOMAIN ROM_INFO \/ options.device \notin DOMAIN DEVICE_INFO
         THEN /\ Uncaught("KeyError")
              /\ UNCHANGED <<options, prompt>>
         ELSE IF options.skip_sync /\ ~IsDir(tree)
           THEN /\ options' = [options EXCEPT !.skip_sync = FALSE]
                /\ Goto("remove_tree")
         ELSE IF ~options.skip_sync
           THEN /\ Goto("remove_tree")
                /\ UNCHANGED options
         ELSE /\ Goto(AfterSync(options))
              /\ UNCHANGED options
    /\ typed' = <<>>
    /\ UNCHANGED <<args, builder, rom_info, device_info, log_dir, log_file,
                   missing_deps, rejected, tree, tree_before, cmds, todo,
                   not_found, queue, builds, doc_file, docs, elapsed_shown>>
    /\ UNCHANGED diag_vars

KeepTree ==
    /\ pc = "remove_tree"
    /\ Goto("make_tree")
    /\ UNCHANGED <<typed, args, options, builder, rom_info, device_info, log_dir,
                   log_file, missing_deps, rejected, tree, tree_before, cmds, todo,
                   not_found, queue, builds, doc_file, docs, elapsed_shown>>
    /\ UNCHANGED diag_vars

\* lines 532-534: shutil.rmtree of an existing source path
RemoveTree ==
    /\ pc = "remove_tree"
    /\ tree' = "absent"
    /\ Goto("make_tree")
    /\ UNCHANGED <<typed, args, options, builder, rom_info, device_info, log_dir,
                   log_file, missing_deps, rejected, tree_before, cmds, todo,
                   not_found, queue, builds, doc_file, docs, elapsed_shown>>
    /\ UNCHANGED diag_vars

\* lines 537-539: os.makedirs(rom_path) and chdir
MakeTree ==
    /\ pc = "make_tree"
    /\ tree' = "unmarked"
    /\ Goto("repo_init")
    /\ UNCHANGED <<typed, args, options, builder, rom_info, device_info, log_dir,
                   log_file, missing_deps, rejected, tree_before, cmds, todo,
                   not_found, queue, builds, doc_file, docs, elapsed_shown>>
    /\ UNCHANGED diag_vars

RolledBack(t, before) == before

\* lines 544-546 and 553-555: on a non-zero exit setup_environment logs the
\* failure and returns False; the source path is left as it is
TreeAfterFailure(t, before) == t

\* lines 541-543: 'repo init' is started
RepoInit ==
    /\ pc = "repo_init"
    /\ cmds' = Started("repo init", "rom_path")
    /\ Goto("repo_init_wait")
    /\ UNCHANGED <<typed, args, options, builder, rom_info, device_info, log_dir,
                   log_file, missing_deps, rejected, tree, tree_before, todo,
                   not_found, queue, builds, doc_file, docs, elapsed_shown>>
    /\ UNCHANGED diag_vars

\* lines 543-546: a non-zero exit makes setup_environment return False,
\* and run() (lines 898-899) return 1
RepoInitDone ==
    /\ pc = "repo_init_wait"
    /\ \E rc \in ExitCodes :
         /\ cmds' = Finished(rc)
         /\ IF Fatal(rc)
              THEN /\ Exit(1)
                   /\ tree' = TreeAfterFailure(tree, tree_before)
                   /\ UNCHANGED prompt
              ELSE Goto("repo_sync") /\ UNCHANGED tree
    /\ UNCHANGED <<typed, args, options, builder, rom_info, device_info, log_dir,
                   log_file, missing_deps, rejected, tree_before, todo,
                   not_found, queue, builds, doc_file, docs, elapsed_shown>>
    /\ UNCHANGED diag_vars

\* lines 548-552: 'repo sync' is started
RepoSync ==
    /\ pc = "repo_sync"
    /\ cmds' = Started("repo sync", "rom_path")
    /\ Goto("repo_sync_wait")
    /\ UNCHANGED <<typed, args, options, builder, rom_info, device_info, log_dir,
                   log_file, missing_deps, rejected, tree, tree_before, todo,
                   not_found, queue, builds, doc_file, docs, elapsed_shown>>
    /\ UNCHANGED diag_vars

\* lines 552-569: a non-zero exit makes setup_environment return False;
\* otherwise the tree is synced and line 567 decides on the device-tree update
RepoSyncDone ==
    /\ pc = "repo_sync_wait"
    /\ \E rc \in ExitCodes :
         /\ cmds' = Finished(rc)
         /\ IF Fatal(rc)
              THEN /\ Exit(1)
                   /\ tree' = TreeAfterFailure(tree, tree_before)
                   /\ UNCHANGED prompt
              ELSE tree' = "marked" /\ Goto(AfterSync(options))
    /\ UNCHANGED <<typed, args, options, builder, rom_info, device_info, log_dir,
                   log_file, missing_deps, rejected, tree_before, todo,
                   not_found, queue, builds, doc_file, docs, elapsed_shown>>
    /\ UNCHANGED diag_vars

----------------------------------------------------------------------------
(* RomBuilder.update_device_trees *)

CommonTrees ==
    <<[path |-> "device/xiaomi/sm8250-common", cmd |-> "git pull"],
      [path |-> "kernel/xiaomi/sm8250", cmd |-> "git pull"],
      [path |-> "vendor/xiaomi/sm8250-common", cmd |-> "git pull"],
      [path |-> "vendor/xiaomi/pipa", cmd |-> "git pull"]>>

\* lines 413-475: the sub-repositories visited, in order, with their command
DeviceTrees(rom, device) ==
    IF device = "pipa"
      THEN <<[path |-> "device/xiaomi/pipa",
              cmd |-> IF rom = "axion" THEN "git checkout axv-qpr2 && git pull"
                                       ELSE "git checkout lmov && git pull"]>>
           \o CommonTrees
    ELSE IF device = "raven" /\ rom = "axion"
      THEN <<[path |-> "vendor/google/raven",
              cmd |-> "git checkout lineage-22.2 && git pull"]>>
    ELSE <<>>

\* sub-repositories found absent, and git commands that exited non-zero
TreeFaults ==
    Cardinality(not_found)
      + Cardinality({i \in DOMAIN cmds : cmds[i].cwd # "rom_path" /\ cmds[i].rc > 0})

\* where update_device_trees continues with `rest` still to visit
AfterTrees(rest) == IF rest = <<>> THEN "finish_setup" ELSE "update_trees"

\* lines 405-411: "Update device trees? (y/n)"
UpdatePrompt ==
    /\ pc = "update_prompt"
    /\ \E line \in Lines(AnswerChars) :
         IF IsYes(line)
           THEN /\ todo' = DeviceTrees(options.rom, options.device)
                /\ Goto(AfterTrees(todo'))
           ELSE /\ Goto("finish_setup")
                /\ UNCHANGED todo
    /\ UNCHANGED <<typed, args, options, builder, rom_info, device_info, log_dir,
                   log_file, missing_deps, rejected, tree, tree_before, cmds,
                   not_found, queue, builds, doc_file, docs, elapsed_shown>>
    /\ UNCHANGED diag_vars

\* os.path.isdir of the next sub-repository: git is started in it when it
\* exists, otherwise it is reported and skipped
UpdateTree ==
    /\ pc = "update_trees"
    /\ \E present \in {TRUE} \cup {FALSE : f \in {1} \cap 1..(MaxTreeFaults - TreeFaults)} :
         IF present
           THEN /\ cmds' = Started(Head(todo).cmd, Head(todo).path)
                /\ Goto("git_wait")
                /\ UNCHANGED <<todo, not_found>>
           ELSE /\ not_found' = not_found \cup {Head(todo).path}
                /\ todo' = Tail(todo)
                /\ Goto(AfterTrees(todo'))
                /\ UNCHANGED cmds
    /\ UNCHANGED <<typed, args, options, builder, rom_info, device_info, log_dir,
                   log_file, missing_deps, rejected, tree, tree_before, queue,
                   builds, doc_file, docs, elapsed_shown>>
    /\ UNCHANGED diag_vars

RetryFailed(rc) == IF rc # 0 THEN todo ELSE Tail(todo)

\* update_device_trees goes on to the next sub-repository whatever git returned
NextTrees(rc) == Tail(todo)

\* the git command returns; its exit code is ignored
GitDone ==
    /\ pc = "git_wait"
    /\ \E rc \in {0} \cup {c \in ExitCodes : TreeFaults < MaxTreeFaults} :
         /\ cmds' = Finished(rc)
         /\ todo' = NextTrees(rc)
    /\ Goto(AfterTrees(todo'))
    /\ UNCHANGED <<typed, args, options, builder, rom_info, device_info, log_dir,
                   log_file, missing_deps, rejected, tree, tree_before,
                   not_found, queue, builds, doc_file, docs, elapsed_shown>>
    /\ UNCHANGED diag_vars

----------------------------------------------------------------------------
(* RomBuilder.run(): narrators and reports *)

\* run(), lines 903-910: the narrator calls, in order
Invocations(o) ==
    IF o.rom = "axion"
      THEN IF o.variant = "both"
             THEN <<[narrator |-> "build_axion", variant |-> "vanilla"],
                    [narrator |-> "build_axion", variant |-> "gms"]>>
             ELSE <<[narrator |-> "build_axion", variant |-> o.variant]>>
      ELSE <<[narrator |-> "build_lmodroid", variant |-> None]>>

\* setup_environment, lines 571-655, returns True; run() goes on to the builds
FinishSetup ==
    /\ pc = "finish_setup"
    /\ queue' = Invocations(options)
    /\ Goto("build")
    /\ UNCHANGED <<typed, args, options, builder, rom_info, device_info, log_dir,
                   log_file, missing_deps, rejected, tree, tree_before, cmds,
                   todo, not_found, builds, doc_file, docs, elapsed_shown>>
    /\ UNCHANGED diag_vars

AlwaysClean(o) == "m clean"

\* build_axion line 674, build_lmodroid line 713: the clean step narrated
CleanStep(o) == IF o.clean_build THEN "m clean" ELSE "m installclean"

PkgTypes(o) ==
    IF o.build_fastboot THEN "OTA installation zip + Fastboot flashable package"
                        ELSE "OTA installation zip"

OutputBase(o) == IF o.use_server_path THEN "server" ELSE "local"

\* the package file names a narrator invocation derives: none; build_axion
\* (lines 657-697) and build_lmodroid (lines 699-733) log the package types
\* and the release directory, and format no file name
PackageNames(call, o) == <<>>

\* what build_axion / build_lmodroid log for one invocation
Narration(call, o) ==
    [narrator |-> call.narrator, variant |-> call.variant, device |-> o.device,
     with_gms |-> IF call.narrator = "build_axion" THEN call.variant = "gms" ELSE FALSE,
     clean_step |-> CleanStep(o), pkg_types |-> PkgTypes(o),
     package_names |-> PackageNames(call, o),
     release_dir |-> [base |-> OutputBase(o),
                      sub |-> IF call.narrator = "build_axion" THEN call.variant ELSE ""]]

\* generate_docs, lines 331-340: the report path
DocFile(variant, o) ==
    [base |-> OutputBase(o),
     sub |-> IF o.rom = "axion" /\ Truthy(variant) /\ variant # "both"
               THEN variant ELSE ""]

\* build_axion, lines 657-694 / build_lmodroid, lines 699-730: the narration,
\* up to the call of generate_docs
Build ==
    /\ pc = "build"
    /\ queue # <<>>
    /\ builds' = Append(builds, Narration(Head(queue), options))
    /\ doc_file' = DocFile(Head(queue).variant, options)
    /\ Goto("generate_docs")
    /\ UNCHANGED <<typed, args, options, builder, rom_info, device_info, log_dir,
                   log_file, missing_deps, rejected, tree, tree_before, cmds,
                   todo, not_found, queue, docs, elapsed_shown>>
    /\ UNCHANGED diag_vars

\* generate_docs, lines 343-369: os.makedirs and open(doc_file, "w") raise
\* OSError when the path cannot be created; nothing catches it
GenerateDocs ==
    /\ pc = "generate_docs"
    /\ \E writable \in BOOLEAN :
         IF ~writable
           THEN Uncaught("OSError") /\ UNCHANGED <<prompt, docs>>
         ELSE IF rom_info = None
           THEN Uncaught("AttributeError") /\ UNCHANGED <<prompt, docs>>
         ELSE /\ docs' = [docs EXCEPT ![doc_file] = "partial"]
              /\ Goto("write_docs")
    /\ UNCHANGED <<typed, args, options, builder, rom_info, device_info, log_dir,
                   log_file, missing_deps, rejected, tree, tree_before, cmds,
                   todo, not_found, queue, builds, doc_file, elapsed_shown>>
    /\ UNCHANGED diag_vars

\* generate_docs, lines 370-396: the report is written and closed; the
\* narrator returns
WriteDocs ==
    /\ pc = "write_docs"
    /\ docs' = [docs EXCEPT ![doc_file] = "complete"]
    /\ doc_file' = None
    /\ queue' = Tail(queue)
    /\ Goto("build")
    /\ UNCHANGED <<typed, args, options, builder, rom_info, device_info, log_dir,
                   log_file, missing_deps, rejected, tree, tree_before, cmds,
                   todo, not_found, builds, elapsed_shown>>
    /\ UNCHANGED diag_vars

\* run(), lines 912-920: elapsed time is shown and run() returns 0
Finish ==
    /\ pc = "build"
    /\ queue = <<>>
    /\ elapsed_shown' = TRUE
    /\ Exit(0)
    /\ UNCHANGED <<typed, args, options, builder, rom_info, device_info, log_dir,
                   log_file, missing_deps, prompt, rejected, tree, tree_before,
                   cmds, todo, not_found, queue, builds, doc_file, docs>>
    /\ UNCHANGED diag_vars

----------------------------------------------------------------------------
(* __main__, lines 973-978 *)

\* KeyboardInterrupt anywhere inside main(): "Build canceled", exit status 130
Interrupt ==
    /\ pc # "done"
    /\ pc' = "done"
    /\ exit_code' = 130
    /\ raised' = "KeyboardInterrupt"
    /\ typed' = <<>>
    /\ UNCHANGED <<args, options, builder, rom_info, device_info, log_dir,
                   log_file, missing_deps, prompt, rejected, tree, tree_before,
                   cmds, todo, not_found, queue, builds, doc_file, docs,
                   elapsed_shown>>
    /\ UNCHANGED diag_vars

Next ==
    \/ Validate
    \/ Construct
    \/ CheckDependencies
    \/ SetupLoggingOpen
    \/ SetupLoggingWrite
    \/ ReadLine
    \/ RomMenu
    \/ DeviceMenu
    \/ VariantMenu
    \/ PathMenu
    \/ SkipPrompt
    \/ CleanPrompt
    \/ FastbootPrompt
    \/ EndOfInput
    \/ SetupEnvironment
    \/ RemoveTree
    \/ MakeTree
    \/ RepoInit
    \/ RepoInitDone
    \/ RepoSync
    \/ RepoSyncDone
    \/ UpdatePrompt
    \/ UpdateTree
    \/ GitDone
    \/ FinishSetup
    \/ Build
    \/ GenerateDocs
    \/ WriteDocs
    \/ Finish
    \/ Interrupt

Spec == Init /\ [][Next]_vars

----------------------------------------------------------------------------
(* RomBuilder.analyze_build_error, lines 212-235; nothing in run() calls it *)

\* fragments of log lines that the signatures of lines 223-230 look for
PkgHead == "error: package "
PkgTail == " does not exist"
MemHead == "error: '"
MemTail == "' has no member named"
Oom == "Out of memory"
NoSpace == "No space left on device"
Other == "ninja: build stopped"

\* lines of a build log, each a sequence of fragments
LogLines ==
    { <<>>, <<Other>>,
      <<PkgHead, PkgTail>>, <<PkgTail, PkgHead>>, <<PkgHead>>, <<PkgTail>>,
      <<MemHead, MemTail>>, <<MemHead>>,
      <<Oom>>, <<NoSpace>>, <<Oom, NoSpace>>,
      <<NoSpace, PkgHead, Other, PkgTail>> }

\* contents of a build log: up to MaxLogLines lines
LogContents == UNION {[1..n -> LogLines] : n \in 0..MaxLogLines}

\* `fragment in log_content`
Contains(content, fragment) ==
    \E l \in DOMAIN content : \E i \in DOMAIN content[l] : content[l][i] = fragment

\* re.search(r"<head>.*<tail>", log_content): '.' matches no newline, so
\* head and tail are on one line, in this order
RegexSearch(content, head, tail) ==
    \E l \in DOMAIN content : \E i, j \in DOMAIN content[l] :
        i < j /\ content[l][i] = head /\ content[l][j] = tail

\* the category messages of lines 224-232
CategoryMessages ==
    [missing_package |-> "Error: Missing package dependency",
     cxx |-> "Error: C++ compilation error",
     memory |-> "Error: System ran out of memory",
     disk |-> "Error: Disk space full",
     unclassified |-> "Check log for details"]

ClassifyAll(content) ==
    (IF RegexSearch(content, PkgHead, PkgTail)
       THEN <<CategoryMessages.missing_package>> ELSE <<>>)
    \o (IF RegexSearch(content, MemHead, MemTail)
          THEN <<CategoryMessages.cxx>> ELSE <<>>)
    \o (IF Contains(content, Oom) THEN <<CategoryMessages.memory>> ELSE <<>>)
    \o (IF Contains(content, NoSpace) THEN <<CategoryMessages.disk>> ELSE <<>>)

\* lines 223-233: the if / elif chain over the log content
Classify(content) ==
    IF RegexSearch(content, PkgHead, PkgTail)
      THEN <<CategoryMessages.missing_package, "Try running 'repo sync' again">>
    ELSE IF RegexSearch(content, MemHead, MemTail)
      THEN <<CategoryMessages.cxx>>
    ELSE IF Contains(content, Oom)
      THEN <<CategoryMessages.memory>>
    ELSE IF Contains(content, NoSpace)
      THEN <<CategoryMessages.disk>>
    ELSE <<CategoryMessages.unclassified>>

\* BuildOptions as the dataclass declares it, lines 32-42
DefaultOptions ==
    [rom |-> "", device |-> "", variant |-> "", skip_sync |-> FALSE,
     clean_build |-> TRUE, build_fastboot |-> TRUE, use_server_path |-> TRUE,
     interactive |-> TRUE]

\* a RomBuilder on which analyze_build_error is about to be called with the
\* path of a log file
InitClassifier ==
    /\ pc = "analyze_build_error"
    /\ args = {}
    /\ options = DefaultOptions
    /\ builder = TRUE
    /\ rom_info = None
    /\ device_info = None
    /\ log_dir = TRUE
    /\ log_file = NoLog
    /\ missing_deps = 0
    /\ prompt = None
    /\ typed = <<>>
    /\ rejected = 0
    /\ tree = "absent"
    /\ tree_before = "absent"
    /\ cmds = <<>>
    /\ todo = <<>>
    /\ not_found = {}
    /\ queue = <<>>
    /\ builds = <<>>
    /\ doc_file = None
    /\ docs = [f \in DocFiles |-> "absent"]
    /\ elapsed_shown = FALSE
    /\ raised = None
    /\ exit_code = -1
    /\ build_log \in {NoBuildLog} \cup [exists : {TRUE}, content : LogContents]
    /\ reported = <<>>
    /\ returned = <<>>

\* lines 214-235: the whole method
AnalyzeBuildError ==
    /\ pc = "analyze_build_error"
    /\ returned = <<>>
    /\ reported' = IF ~build_log.exists
                     THEN <<"Log file not found">>
                     ELSE <<"Analyzing build errors...">> \o Classify(build_log.content)
    /\ returned' = <<FALSE>>
    /\ UNCHANGED build_log
    /\ UNCHANGED run_vars

NextClassifier == AnalyzeBuildError

SpecClassifier == InitClassifier /\ [][NextClassifier]_vars

----------------------------------------------------------------------------
(* Vocabulary of the properties *)

Interrupted == raised = "KeyboardInterrupt"

NoReport == \A f \in DocFiles : docs[f] = "absent"

\* nothing outside the process has been touched
NoSideEffect ==
    /\ ~builder
    /\ ~log_dir
    /\ log_file = NoLog
    /\ prompt = None
    /\ cmds = <<>>
    /\ tree = tree_before
    /\ NoReport

\* a flag was given, with a value that is none of `known`
GivenUnknown(v, known) == v # None /\ v \notin known

\* the same, for a value that is not the empty string either
GivenUnknownWord(v, known) == v \notin {None, ""} /\ v \notin known

\* 'repo init' or 'repo sync' has exited non-zero
RepoFailed ==
    \E i \in DOMAIN cmds : cmds[i].cmd \in {"repo init", "repo sync"} /\ cmds[i].rc > 0

\* 'repo sync' has exited with zero
FullySynced == \E i \in DOMAIN cmds : cmds[i].cmd = "repo sync" /\ cmds[i].rc = 0

\* setup_environment has returned True
SetupSucceeded == queue # <<>> \/ builds # <<>>

Narrated == [i \in DOMAIN builds |-> builds[i].variant]

----------------------------------------------------------------------------
(* C1 *)

\* C1, as stated: whenever --rom, --device or --variant was given a value
\* that is not in its table, nothing has been constructed, created, prompted
\* or started, and a run that ended without an interrupt ended with code 1.
C1_UnknownValueExitsAtOnce ==
    \A a \in args :
        (\/ GivenUnknown(a.rom, DOMAIN ROM_INFO)
         \/ GivenUnknown(a.device, DOMAIN DEVICE_INFO)
         \/ GivenUnknown(a.variant, {"vanilla", "gms", "both"}))
        => /\ NoSideEffect
           /\ pc = "done" /\ ~Interrupted => exit_code = 1

\* C1, amended: the same for a non-empty value that is not in its table (an
\* empty value counts as the flag not being given).
C1_UnknownWordExitsAtOnce ==
    \A a \in args :
        (\/ GivenUnknownWord(a.rom, DOMAIN ROM_INFO)
         \/ GivenUnknownWord(a.device, DOMAIN DEVICE_INFO)
         \/ GivenUnknownWord(a.variant, {"vanilla", "gms", "both"}))
        => /\ NoSideEffect
           /\ pc \in {"validate", "done"}
           /\ pc = "done" /\ ~Interrupted => exit_code = 1

\* a run given only an unknown variant has ended with code 1, nothing touched
C1_Witness ==
    /\ pc = "done"
    /\ exit_code = 1
    /\ NoSideEffect
    /\ \E a \in args : a.rom = "axion" /\ a.device = "pipa" /\ a.variant = "full"

----------------------------------------------------------------------------
(* C2 *)

\* C2, as stated: a non-interactive run with no ROM, no device, or Axion
\* without a variant removes no tree, starts no command, narrates nothing,
\* writes no report, and does not end with code 0.
C2_MissingSelectionFails ==
    \A a \in args :
        (/\ a.non_interactive
         /\ \/ ~Truthy(a.rom)
            \/ ~Truthy(a.device)
            \/ a.rom = "axion" /\ ~Truthy(a.variant))
        => /\ tree = tree_before
           /\ cmds = <<>>
           /\ builds = <<>>
           /\ NoReport
           /\ pc = "done" /\ ~Interrupted => exit_code # 0

----------------------------------------------------------------------------
(* C3 *)

\* C3: once 'repo init' or 'repo sync' has exited non-zero the run has ended
\* with code 1, and no narrator has run, none is pending, no report exists
\* and no elapsed time was shown.
C3_SyncFailureIsFatal ==
    RepoFailed =>
        /\ pc = "done"
        /\ exit_code = 1
        /\ builds = <<>>
        /\ queue = <<>>
        /\ NoReport
        /\ ~elapsed_shown

\* 'repo init' succeeded, 'repo sync' failed, and the run ended with code 1
C3_Witness ==
    /\ \E i \in DOMAIN cmds : cmds[i].cmd = "repo sync" /\ cmds[i].rc > 0
    /\ \E i \in DOMAIN cmds : cmds[i].cmd = "repo init" /\ cmds[i].rc = 0
    /\ exit_code = 1

----------------------------------------------------------------------------
(* C4 *)

\* C4, as stated: a run that narrates a build on a source path that was
\* absent or without its marker when the run began has completed a full sync
\* first; in particular a skip-sync run never narrates on such a path as it
\* found it.
C4_NoNarrationOnUnsyncedPath ==
    (builds # <<>> /\ tree_before \in {"absent", "unmarked"}) => FullySynced

----------------------------------------------------------------------------
(* C5 *)

\* the variants build_axion is to be called with, in order
ExpectedVariants(variant) ==
    IF variant = "both" THEN <<"vanilla", "gms">> ELSE <<variant>>

\* C5, as stated: a run for Axion whose setup succeeded and that was not
\* interrupted has called build_axion for 'vanilla' then 'gms' when the
\* variant is 'both', and once with the variant when it is 'vanilla' or 'gms'.
C5_AxionDispatch ==
    (/\ pc = "done"
     /\ ~Interrupted
     /\ SetupSucceeded
     /\ options.rom = "axion"
     /\ options.variant \in {"vanilla", "gms", "both"})
    => /\ Narrated = ExpectedVariants(options.variant)
       /\ \A i \in DOMAIN builds : builds[i].narrator = "build_axion"

----------------------------------------------------------------------------
(* C6 *)

MenuSize(menu) ==
    CASE menu = "rom_menu" -> Cardinality(DOMAIN ROM_INFO)
      [] menu = "device_menu" -> Cardinality(DOMAIN DEVICE_INFO)
      [] menu = "variant_menu" -> 3
      [] menu = "path_menu" -> 2

\* the line is a number of the menu
ValidChoice(menu, line) ==
    /\ ParseInt(line).ok
    /\ ParseInt(line).value \in 1..MenuSize(menu)

\* the options after entry number k of the menu was chosen
Chosen(menu, k, o) ==
    CASE menu = "rom_menu" -> [o EXCEPT !.rom = RomKeys[k]]
      [] menu = "device_menu" -> [o EXCEPT !.device = DeviceKeys[k]]
      [] menu = "variant_menu" -> [o EXCEPT !.variant = Variants[k]]
      [] menu = "path_menu" -> [o EXCEPT !.use_server_path = (k = 1)]

MenuStep ==
    (pc \in MenuPcs /\ raised' = None) =>
        IF typed = <<>>
          THEN pc' = pc /\ UNCHANGED <<options, rom_info, device_info, rejected>>
        ELSE IF ValidChoice(pc, typed[1])
          THEN /\ pc' # pc
               /\ options' = Chosen(pc, ParseInt(typed[1]).value, options)
               /\ options'.rom \in DOMAIN ROM_INFO \cup {options.rom}
               /\ options'.device \in DOMAIN DEVICE_INFO \cup {options.device}
               /\ options'.variant \in {"vanilla", "gms", "both", options.variant}
               /\ pc = "rom_menu" => options'.rom \in DOMAIN ROM_INFO
               /\ pc = "device_menu" => options'.device \in DOMAIN DEVICE_INFO
               /\ pc = "variant_menu" => options'.variant \in {"vanilla", "gms", "both"}
               /\ UNCHANGED rejected
          ELSE /\ pc' = pc
               /\ UNCHANGED <<args, options, builder, rom_info, device_info,
                              log_dir, log_file, missing_deps, prompt, tree,
                              tree_before, cmds, todo, not_found, queue, builds,
                              doc_file, docs, elapsed_shown, exit_code>>

\* C6: at each of the four menus, a line that is not a number of the menu
\* changes nothing and the menu is shown again, however many times; the menu
\* is left only by a number of the menu, and then the options are those of
\* before with the chosen entry, so that the inputs rejected before it have
\* no effect on the result.
C6_MenusRetryUntilValid == [][MenuStep]_vars

\* an input was rejected at a menu, and the menus have been left since
C6_Witness ==
    /\ rejected >= 1
    /\ pc = "skip_prompt"
    /\ options.rom \in DOMAIN ROM_INFO
    /\ options.device \in DOMAIN DEVICE_INFO

----------------------------------------------------------------------------
(* C7 *)

\* every narrator call that run() makes for the options has returned
AllNarrated ==
    /\ queue = <<>>
    /\ Len(builds) = Len(Invocations(options))
    /\ \A i \in DOMAIN builds : docs[DocFile(builds[i].variant, options)] = "complete"

\* the validation of main() has rejected a flag
ValidationFailed ==
    \E a \in args :
        \/ GivenUnknownWord(a.rom, DOMAIN ROM_INFO)
        \/ GivenUnknownWord(a.device, DOMAIN DEVICE_INFO)
        \/ GivenUnknownWord(a.variant, {"vanilla", "gms", "both"})

----------------------------------------------------------------------------
(* C8 *)

\* C8, as stated: an interrupted run has ended with code 130, and neither the
\* log file nor a report is left partially written.
C8_InterruptLeavesNoPartialFile ==
    Interrupted =>
        /\ pc = "done"
        /\ exit_code = 130
        /\ log_file.state # "partial"
        /\ \A f \in DocFiles : docs[f] # "partial"

----------------------------------------------------------------------------
(* C9 *)

\* a best-effort step has failed, and nothing else has
BestEffortFailure ==
    \/ raised = "OSError"
    \/ raised = None /\ TreeFaults > 0

\* C9, as stated: a run in which only a best-effort step failed (a report
\* could not be created, a git command failed, a sub-repository was absent)
\* has, when it ends, made every narrator call, shown the elapsed time and
\* ended with code 0.
C9_BestEffortNeverAborts ==
    (pc = "done" /\ BestEffortFailure) =>
        /\ exit_code = 0
        /\ elapsed_shown
        /\ Len(builds) = Len(Invocations(options))

----------------------------------------------------------------------------
(* C10 *)

\* C10: no external command is started twice in a run: no two entries of
\* the commands started have the same command line and directory, whatever
\* their exit codes.
C10_NoCommandStartedTwice ==
    \A i, j \in DOMAIN cmds :
        (cmds[i].cmd = cmds[j].cmd /\ cmds[i].cwd = cmds[j].cwd) => i = j

\* a git command has failed and another command was started after it
C10_Witness ==
    \E i \in DOMAIN cmds :
        /\ cmds[i].rc > 0
        /\ cmds[i].cwd # "rom_path"
        /\ i < Len(cmds)

----------------------------------------------------------------------------
(* C11 *)

\* the positions of `reported` that hold a category message
CategoryReports ==
    {i \in DOMAIN reported :
        \E k \in DOMAIN CategoryMessages : reported[i] = CategoryMessages[k]}

\* analyze_build_error has returned from a log file it could read
Analyzed == returned # <<>> /\ build_log.exists

\* C11, as stated: when the log content holds "No space left on device",
\* analyze_build_error reports the disk-space category and no other one,
\* whatever else the log holds.
C11_DiskSpaceAlwaysReported ==
    (Analyzed /\ Contains(build_log.content, NoSpace)) =>
        /\ CategoryReports # {}
        /\ \A i \in CategoryReports : reported[i] = CategoryMessages.disk

----------------------------------------------------------------------------
(* C19 *)

\* the signatures in the order of the claim, with their categories
Signatures(content) ==
    <<[found |-> RegexSearch(content, PkgHead, PkgTail), category |-> "missing_package"],
      [found |-> RegexSearch(content, MemHead, MemTail), category |-> "cxx"],
      [found |-> Contains(content, Oom), category |-> "memory"],
      [found |-> Contains(content, NoSpace), category |-> "disk"]>>

\* the category of the first signature found, or unclassified
FirstMatch(content) ==
    LET sigs == Signatures(content)
        hits == {k \in DOMAIN sigs : sigs[k].found}
    IN  IF hits = {} THEN "unclassified"
        ELSE sigs[CHOOSE k \in hits : \A h \in hits : k <= h].category

\* C19: for every log content read, analyze_build_error reports exactly one
\* category, that of the first signature found in the order missing package,
\* 'has no member named', 'Out of memory', 'No space left on device', or the
\* unclassified message when none is found; it returns False and leaves the
\* state of the run as it was.
C19_FirstMatchOnly ==
    /\ Analyzed =>
         /\ Cardinality(CategoryReports) = 1
         /\ \A i \in CategoryReports :
                reported[i] = CategoryMessages[FirstMatch(build_log.content)]
    /\ returned # <<>> =>
         /\ returned = <<FALSE>>
         /\ pc = "analyze_build_error"
         /\ exit_code = -1
         /\ raised = None

\* a log with two signatures on two lines was analyzed: the earlier one in the
\* order was reported
C19_Witness ==
    /\ Analyzed
    /\ build_log.content = <<<<NoSpace>>, <<Oom>>>>
    /\ \E i \in DOMAIN reported : reported[i] = CategoryMessages.memory

----------------------------------------------------------------------------
(* C12 *)

\* the device-tree update was offered or has acted
UpdateSeen ==
    \/ prompt = "update_prompt"
    \/ not_found # {}
    \/ \E i \in DOMAIN cmds : cmds[i].cwd # "rom_path"

\* C12: the device-tree update is offered, and git run in a sub-repository,
\* only in an interactive run that reuses an existing tree with skip-sync
\* still set: never in a non-interactive run nor after a full sync, fallback
\* included. A sub-repository absent on disk gets no git command, and the
\* update still returns success, so that setup completes.
C12_UpdateOnlyWhenReusingInteractively ==
    /\ UpdateSeen =>
         /\ options.interactive
         /\ options.skip_sync
         /\ tree_before # "absent"
         /\ tree = tree_before
         /\ \A i \in DOMAIN cmds : cmds[i].cmd \notin {"repo init", "repo sync"}
    /\ \A path \in not_found : \A i \in DOMAIN cmds : cmds[i].cwd # path
    /\ (not_found # {} /\ pc = "done" /\ ~Interrupted) => SetupSucceeded

\* an update met an absent sub-repository, ran git in another one, and the
\* run went on to end with code 0
C12_Witness ==
    /\ not_found # {}
    /\ \E i \in DOMAIN cmds : cmds[i].cwd # "rom_path" /\ cmds[i].rc = 0
    /\ pc = "done"
    /\ exit_code = 0

----------------------------------------------------------------------------
(* C13 *)

\* C13, as stated: once environment setup or narration is under way, the
\* header of the log file holds the ROM, device and variant of the options
\* that setup and narration use.
C13_HeaderRecordsSelections ==
    (pc \in {"setup_environment", "build"} \/ builds # <<>>) =>
        /\ log_file.state = "complete"
        /\ log_file.header = [rom |-> options.rom, device |-> options.device,
                              variant |-> options.variant]

----------------------------------------------------------------------------
(* C14 *)

\* positions of run() after option resolution: environment setup, device-tree
\* update, narration and report generation
AfterResolution ==
    {"setup_environment", "remove_tree", "make_tree", "repo_init",
     "repo_init_wait", "repo_sync", "repo_sync_wait", "update_prompt",
     "update_trees", "git_wait", "finish_setup", "build", "generate_docs",
     "write_docs"}

OptionsKept == pc \in AfterResolution => options' = options

\* C14, as stated: no step of environment setup, device-tree update, build
\* narration or report generation changes a field of the options.
C14_OptionsReadOnly == [][OptionsKept]_vars

----------------------------------------------------------------------------
(* C15 *)

\* C15: in a run that does not enter the interactive flow (the options stay
\* those of the command line), every narrator invocation narrates 'm clean'
\* when --clean was passed and 'm installclean' when it was not.
C15_CleanIsOptIn ==
    \A a \in args : \A i \in DOMAIN builds :
        builds[i].clean_step = IF a.clean_build THEN "m clean" ELSE "m installclean"

\* a run without --clean has narrated both Axion variants with 'm installclean'
C15_Witness ==
    /\ \E a \in args : ~a.clean_build /\ a.variant = "both"
    /\ Len(builds) = 2
    /\ \A i \in DOMAIN builds : builds[i].clean_step = "m installclean"

----------------------------------------------------------------------------
(* C16 *)

\* the (ROM, device) pair has a repository in DEVICE_REPOS to build a
\* manifest fragment from
KnownManifest(rom, device) ==
    /\ rom \in DOMAIN DEVICE_REPOS
    /\ device \in DOMAIN DEVICE_REPOS[rom]
    /\ \/ DEVICE_REPOS[rom][device].device # None
       \/ DEVICE_REPOS[rom][device].vendor # None

\* C16, as stated: 'repo sync' is started only for a pair with a known
\* manifest and after a step that followed 'repo init' and fetched the
\* fragment; a full sync for a pair without one never starts 'repo sync',
\* narrates nothing, and does not end with code 0.
C16_ManifestFragmentBeforeSync ==
    /\ \A j \in DOMAIN cmds :
         cmds[j].cmd = "repo sync" =>
            /\ KnownManifest(options.rom, options.device)
            /\ \E i \in 1..(j - 1) :
                  /\ cmds[i].cmd \notin {"repo init", "repo sync"}
                  /\ \E h \in 1..(i - 1) : cmds[h].cmd = "repo init"
    /\ (cmds # <<>> /\ ~KnownManifest(options.rom, options.device)) =>
         /\ \A j \in DOMAIN cmds : cmds[j].cmd # "repo sync"
         /\ builds = <<>>
         /\ (pc = "done" /\ ~Interrupted) => exit_code # 0

----------------------------------------------------------------------------
(* C17 *)

\* C17, as stated: with the fastboot flag set every narrator invocation
\* produces a primary package name and a FASTBOOT-suffixed one; without the
\* flag no FASTBOOT-suffixed name is produced.
C17_FastbootNames ==
    \A i \in DOMAIN builds :
        LET names == builds[i].package_names IN
        IF options.build_fastboot
          THEN /\ \E k \in DOMAIN names : names[k].suffix = ""
               /\ \E k \in DOMAIN names : names[k].suffix = "FASTBOOT"
          ELSE \A k \in DOMAIN names : names[k].suffix # "FASTBOOT"

----------------------------------------------------------------------------
(* C18 *)

RepoInitOk == [cmd |-> "repo init", cwd |-> "rom_path", rc |-> 0]

\* one step of the run keeps the order remove, recreate, 'repo init',
\* 'repo sync'
SyncStepInOrder ==
    /\ (tree # "absent" /\ tree' = "absent") => (pc = "remove_tree" /\ cmds = <<>>)
    /\ (tree' # tree /\ tree' = "unmarked") =>
          (pc = "make_tree" /\ tree = "absent" /\ cmds = <<>>)
    /\ pc' = "make_tree" => tree' = "absent"
    /\ Len(cmds') > Len(cmds) =>
          /\ cmds'[Len(cmds')].cmd = "repo init" =>
                (cmds = <<>> /\ tree = "unmarked" /\ pc = "repo_init")
          /\ cmds'[Len(cmds')].cmd = "repo sync" =>
                (cmds = <<RepoInitOk>> /\ tree = "unmarked" /\ pc = "repo_sync")
    /\ (tree # "marked" /\ tree' = "marked") =>
          /\ Len(cmds) = 2
          /\ cmds[2].cmd = "repo sync"
          /\ cmds'[2].rc = 0

\* C18: the full sync removes the existing tree, then recreates the
\* directory, then starts 'repo init', then, only once 'repo init' has exited
\* with zero, starts 'repo sync'; no step starts before the one before it is
\* over.
C18_FullSyncOrder == [][SyncStepInOrder]_vars

\* a tree that existed was removed, recreated, initialized and synced
C18_Witness ==
    /\ tree_before = "marked"
    /\ Len(cmds) = 2
    /\ cmds[1] = RepoInitOk
    /\ cmds[2] = [cmd |-> "repo sync", cwd |-> "rom_path", rc |-> 0]
    /\ tree = "marked"
    /\ pc = "finish_setup"

----------------------------------------------------------------------------
(* C20 *)

\* skip-sync is requested: by the flag in a run that keeps the options of the
\* command line, or, in the interactive flow, by the answer that set the option
SkipRequested == options.skip_sync \/ \E a \in args : a.skip_sync

\* C20: when skip-sync is requested and the source directory existed when
\* the run began, the directory is never removed or recreated and neither
\* 'repo init' nor 'repo sync' is started: the tree stays as it was found.
C20_SkipSyncLeavesTree ==
    (SkipRequested /\ tree_before # "absent") =>
        /\ tree = tree_before
        /\ pc \notin {"remove_tree", "make_tree", "repo_init", "repo_init_wait",
                      "repo_sync", "repo_sync_wait"}
        /\ \A i \in DOMAIN cmds : cmds[i].cmd \notin {"repo init", "repo sync"}

\* a skip-sync run on an existing tree has ended with code 0, the tree as found
C20_Witness ==
    /\ options.skip_sync
    /\ tree_before = "marked"
    /\ tree = "marked"
    /\ cmds = <<>>
    /\ pc = "done"
    /\ exit_code = 0

----------------------------------------------------------------------------
(* C21 *)

\* C21: once 'repo init' or 'repo sync' has exited non-zero the run has ended
\* with code 1 and the source path holds the directory the full sync created,
\* unsynced, whatever it held before the run: the tree is not restored.
C21_FailedSyncNotRolledBack ==
    RepoFailed =>
        /\ pc = "done"
        /\ exit_code = 1
        /\ tree = "unmarked"

\* a synced tree existed, the full sync removed it and 'repo sync' failed:
\* the path holds an unsynced directory
C21_Witness ==
    /\ tree_before = "marked"
    /\ \E i \in DOMAIN cmds : cmds[i].cmd = "repo sync" /\ cmds[i].rc > 0
    /\ tree = "unmarked"
    /\ exit_code = 1

----------------------------------------------------------------------------
(* C22 *)

\* the prompts of the interactive flow
FlowPcs == PromptPcs \ {"update_prompt"}

\* a ROM, a device or the Axion variant is missing from the options
SelectionMissing(o) ==
    o.rom = "" \/ o.device = "" \/ (o.rom = "axion" /\ o.variant = "")

\* the operator answered y or Y
SaidYes(line) == line \in {<<"y">>, <<"Y">>}

\* the flow is entered exactly when the run is interactive and a selection is
\* missing
FlowEntry ==
    pc = "write_log" /\ raised' = None =>
        IF options.interactive /\ SelectionMissing(options)
          THEN pc' \in FlowPcs
          ELSE pc' = "setup_environment"

\* inside the flow: a selection is prompted for only when it is missing and
\* changed only by its own menu, all of the output path, skip-sync, clean and
\* fastboot prompts are gone through, and each sets its option to the answer
FlowStep ==
    pc \in FlowPcs /\ raised' = None =>
        /\ pc = "rom_menu" => options.rom = ""
        /\ pc = "device_menu" => options.device = ""
        /\ pc = "variant_menu" => (options.rom = "axion" /\ options.variant = "")
        /\ options'.rom # options.rom => pc = "rom_menu"
        /\ options'.device # options.device => pc = "device_menu"
        /\ options'.variant # options.variant => pc = "variant_menu"
        /\ options'.interactive = options.interactive
        /\ pc' # pc =>
             /\ pc \in {"rom_menu", "device_menu", "variant_menu"} => pc' \in MenuPcs
             /\ pc = "path_menu" =>
                  /\ pc' = "skip_prompt"
                  /\ options'.use_server_path = (ParseInt(typed[1]).value = 1)
             /\ pc = "skip_prompt" =>
                  /\ pc' = "clean_prompt"
                  /\ options'.skip_sync = SaidYes(typed'[1])
             /\ pc = "clean_prompt" =>
                  /\ pc' = "fastboot_prompt"
                  /\ options'.clean_build = SaidYes(typed'[1])
             /\ pc = "fastboot_prompt" =>
                  /\ pc' = "setup_environment"
                  /\ options'.build_fastboot = SaidYes(typed'[1])
        /\ pc \in {"skip_prompt", "clean_prompt", "fastboot_prompt"} => pc' # pc
        /\ options'.use_server_path # options.use_server_path => pc = "path_menu"
        /\ options'.skip_sync # options.skip_sync => pc = "skip_prompt"
        /\ options'.clean_build # options.clean_build => pc = "clean_prompt"
        /\ options'.build_fastboot # options.build_fastboot => pc = "fastboot_prompt"

\* outside the flow: no selection prompt has appeared, and up to the start of
\* environment setup the options are those of the flags
FlagsStand ==
    \A a \in args :
        /\ prompt \notin FlowPcs
        /\ pc \in {"validate", "construct", "check_dependencies", "setup_logging",
                   "write_log", "setup_environment"} =>
              /\ options.rom = (IF a.rom = None THEN "" ELSE a.rom)
              /\ options.device = (IF a.device = None THEN "" ELSE a.device)
              /\ options.variant = (IF a.variant = None THEN "" ELSE a.variant)
              /\ options.use_server_path = ~a.local_path
              /\ options.skip_sync = a.skip_sync
              /\ options.clean_build = a.clean_build
              /\ options.build_fastboot = a.build_fastboot
              /\ options.interactive = ~a.non_interactive

----------------------------------------------------------------------------
(* C23 *)

\* C23: when a tool among repo, git, curl is not found, the run has ended
\* with code 1 and the log file was not written, no prompt was shown, no
\* external command was started and the source tree is as it was.
C23_MissingToolStopsBeforeLog ==
    missing_deps > 0 =>
        /\ pc = "done"
        /\ exit_code = 1
        /\ log_file = NoLog
        /\ prompt = None
        /\ cmds = <<>>
        /\ tree = tree_before
        /\ builds = <<>>

\* two tools were missing in a run with valid selections and an existing
\* tree: it ended with code 1, the tree untouched
C23_Witness ==
    /\ missing_deps = 2
    /\ exit_code = 1
    /\ log_file = NoLog
    /\ tree = "marked"
    /\ options.rom = "axion"
    /\ options.device = "pipa"

----------------------------------------------------------------------------
(* C24 *)

\* C24: in every state of a run, from the construction of the RomBuilder on,
\* a non-empty options.rom has its ROM_INFO entry in rom_info and a non-empty
\* options.device its DEVICE_INFO entry in device_info; report generation
\* therefore never finds rom_info missing.
C24_InfoFollowsSelection ==
    /\ builder =>
         /\ options.rom # "" => (rom_info = options.rom /\ rom_info \in DOMAIN ROM_INFO)
         /\ options.device # "" =>
               (device_info = options.device /\ device_info \in DOMAIN DEVICE_INFO)
    /\ pc \in {"generate_docs", "write_docs"} => rom_info \in DOMAIN ROM_INFO
    /\ raised # "AttributeError"

\* ROM and device were both chosen at the menus, and a report is being
\* generated from their entries
C24_Witness ==
    /\ pc = "generate_docs"
    /\ prompt = "fastboot_prompt"
    /\ args = {}
    /\ options.rom = "lmodroid"
    /\ rom_info = "lmodroid"
    /\ device_info = "raven"

====
